---- MODULE Spec2Model ----
(***************************************************************************)
(* Model of chips/api/api.py: the netlist graph (Chip, Wire, Input,        *)
(* Output, _Instance), connection-time checks of _Instance.__init__ and    *)
(* Chip.generate_verilog (completeness checks followed by text emission).  *)
(*                                                                         *)
(* Objects live in two arenas, net and inst, indexed by creation order;    *)
(* a reference to an instance is its index in inst, a reference to a net   *)
(* its index in net.  Python's None is 0 and a missing attribute (Input    *)
(* has no .source, Output has no .sink) is -1.                             *)
(***************************************************************************)
EXTENDS Integers, Sequences, FiniteSets, TLC

VARIABLES
    chips,      \* names of the Chip objects constructed
    net,        \* arena of Wire / Input / Output objects
    inst,       \* arena of _Instance objects
    instances,  \* Chip.instances, per chip: sequence of inst indices
    wires,      \* Chip.wires, per chip: sequence of net indices
    inputs,     \* Chip.inputs, per chip
    outputs,    \* Chip.outputs, per chip
    files,      \* file system: chip name -> file "<name>.v"
    heapBase,   \* address of the first object this process allocates
    last,       \* the last call made and the exception it raised, if any
    built,      \* inst indices whose constructor returned normally
    calls,      \* per chip: successful generate_verilog calls since the graph last changed
    components, \* the Component objects constructed
    quota       \* the device behind the files: the write() calls it has room for

vars == <<chips, net, inst, instances, wires, inputs, outputs, files, heapBase, last, built, calls,
          components, quota>>

------------------------------------------------------------------------------
(* Bounds of the model *)

MaxNets == 2
MaxInst == 2
MaxCalls == 2

(* Inputs of the model *)

Names == {"a", "b"}
HeapBases == {100, 200}

\* the write() calls a full device still accepts: the header only, or the
\* header and one declaration
Rooms == {1, 4}

\* chips.compiler.compiler.comp(C_file) is external: the descriptors it returns
Components ==
    { [name |-> "Buf",   inputs |-> <<"x">>,      outputs |-> <<"y">>],
      [name |-> "Adder", inputs |-> <<"a", "b">>, outputs |-> <<"z">>] }

None == 0
NoAttr == -1

------------------------------------------------------------------------------
(* Exceptions.  fmt is the format string of the raise statement, arg the    *)
(* value formatted into it, k the position of the offending list element.   *)

NoExc == [type |-> "none", fmt |-> "", arg |-> "", k |-> 0]

C2CHIPError(fmt, arg, k) == [type |-> "C2CHIPError", fmt |-> fmt, arg |-> arg, k |-> k]

\* reading an attribute the object does not have
AttributeError(attr, k) == [type |-> "AttributeError", fmt |-> attr, arg |-> "", k |-> k]

\* file.write() failing on its k-th call (no space left on the device)
IOError(k) == [type |-> "IOError", fmt |-> "write", arg |-> "", k |-> k]

------------------------------------------------------------------------------
(* id(): CPython returns the object's address.  Objects of this program are *)
(* never freed (the chip's lists keep them alive), so an address is fixed   *)
(* for good and no two objects share one.  The address of the n-th object   *)
(* allocated is taken to be the heap base of the process plus n; the heap   *)
(* base differs from one process to the next.                               *)

Allocated == Len(net) + Len(inst)

IdAt(base, slot) == base + slot

\* "wire_" + str(id(self)) in a process whose heap starts at base
WireName(base, slot) == "wire_" \o ToString(IdAt(base, slot))

id(slot) == IdAt(heapBase, slot)

str(n) == ToString(n)

------------------------------------------------------------------------------
(* Wire.__init__, Input.__init__, Output.__init__ *)

\* the object Wire(chip) builds
Wire(chip, slot) ==
    [cls |-> "Wire", chip |-> chip, source |-> None, sink |-> None,
     name |-> WireName(heapBase, slot), slot |-> slot]

\* the object Input(chip, name) builds: it has no source attribute
Input(chip, name, slot) ==
    [cls |-> "Input", chip |-> chip, source |-> NoAttr, sink |-> None,
     name |-> name, slot |-> slot]

\* the object Output(chip, name) builds: it has no sink attribute
Output(chip, name, slot) ==
    [cls |-> "Output", chip |-> chip, source |-> None, sink |-> NoAttr,
     name |-> name, slot |-> slot]

\* list.append on one chip's list
AppendTo(lists, chip, x) == [lists EXCEPT ![chip] = Append(@, x)]

Returned(op, chip) == [op |-> op, chip |-> chip, exc |-> NoExc]

Raised(op, chip, exc) == [op |-> op, chip |-> chip, exc |-> exc]

NewWire(chip) ==
    /\ Len(net) < MaxNets
    /\ net' = Append(net, Wire(chip, Allocated + 1))
    /\ wires' = AppendTo(wires, chip, Len(net) + 1)
    /\ last' = Returned("Wire", chip)
    /\ calls' = [c \in chips |-> 0]
    /\ UNCHANGED <<chips, inst, instances, inputs, outputs, files, heapBase, built, components, quota>>

NewInput(chip, name) ==
    /\ Len(net) < MaxNets
    /\ net' = Append(net, Input(chip, name, Allocated + 1))
    /\ inputs' = AppendTo(inputs, chip, Len(net) + 1)
    /\ last' = Returned("Input", chip)
    /\ calls' = [c \in chips |-> 0]
    /\ UNCHANGED <<chips, inst, instances, wires, outputs, files, heapBase, built, components, quota>>

NewOutput(chip, name) ==
    /\ Len(net) < MaxNets
    /\ net' = Append(net, Output(chip, name, Allocated + 1))
    /\ outputs' = AppendTo(outputs, chip, Len(net) + 1)
    /\ last' = Returned("Output", chip)
    /\ calls' = [c \in chips |-> 0]
    /\ UNCHANGED <<chips, inst, instances, wires, inputs, files, heapBase, built, components, quota>>

------------------------------------------------------------------------------
(* _Instance.__init__.  The print statements of lines 130 and 136 write to *)
(* standard output only and are left out.                                   *)

\* the two lists stored under each other's name
Instance_Swapped(component, chip, ins, outs, slot) ==
    [chip |-> chip, inputs |-> outs, outputs |-> ins, component |-> component,
     slot |-> slot]

\* the fields set before the instance is appended to chip.instances
Instance(component, chip, ins, outs, slot) ==
    [chip |-> chip, inputs |-> ins, outputs |-> outs, component |-> component,
     slot |-> slot]

\* BindSinks without the test of i.sink: a bound sink is overwritten
RECURSIVE BindSinks_Overwrite(_, _, _, _)
BindSinks_Overwrite(nt, ins, k, self) ==
    IF k > Len(ins) THEN [net |-> nt, exc |-> NoExc]
    ELSE LET i == ins[k] IN
         IF nt[i].sink = NoAttr
         THEN [net |-> nt, exc |-> AttributeError("sink", k)]
         ELSE BindSinks_Overwrite([nt EXCEPT ![i].sink = self], ins, k + 1, self)

\* for i in inputs: if i.sink is not None: raise ...; i.sink = self
RECURSIVE BindSinks(_, _, _, _)
BindSinks(nt, ins, k, self) ==
    IF k > Len(ins) THEN [net |-> nt, exc |-> NoExc]
    ELSE LET i == ins[k] IN
         IF nt[i].sink = NoAttr
         THEN [net |-> nt, exc |-> AttributeError("sink", k)]
         ELSE IF nt[i].sink # None
         THEN [net |-> nt, exc |-> C2CHIPError("%s allready has a sink", nt[i].name, k)]
         ELSE BindSinks([nt EXCEPT ![i].sink = self], ins, k + 1, self)

\* for i in outputs: if i.source is not None: raise ...; i.source = self
RECURSIVE BindSources(_, _, _, _)
BindSources(nt, outs, k, self) ==
    IF k > Len(outs) THEN [net |-> nt, exc |-> NoExc]
    ELSE LET i == outs[k] IN
         IF nt[i].source = NoAttr
         THEN [net |-> nt, exc |-> AttributeError("source", k)]
         ELSE IF nt[i].source # None
         THEN [net |-> nt, exc |-> C2CHIPError("%s has allready has a source", nt[i].name, k)]
         ELSE BindSources([nt EXCEPT ![i].source = self], outs, k + 1, self)

\* the two length checks: the message reads self.name, which _Instance
\* never sets, so formatting it raises AttributeError before C2CHIPError
\* is constructed
Arity(component, ins, outs) ==
    IF Len(component.inputs) # Len(ins) THEN AttributeError("name", 0)
    ELSE IF Len(component.outputs) # Len(outs) THEN AttributeError("name", 0)
    ELSE NoExc

\* the body of __init__ after the registration: the nets and the exception
Connect(nt, component, ins, outs, self) ==
    LET a == Arity(component, ins, outs) IN
    IF a # NoExc THEN [net |-> nt, exc |-> a]
    ELSE LET s == BindSinks(nt, ins, 1, self) IN
         IF s.exc # NoExc THEN s
         ELSE BindSources(s.net, outs, 1, self)

\* the instance put at the front of the list
Register_Prepend(lists, chip, self) == [lists EXCEPT ![chip] = <<self>> \o @]

\* self.chip.instances.append(self), line 121
Register(lists, chip, self) == AppendTo(lists, chip, self)

NewInstance(component, chip, ins, outs) ==
    /\ Len(inst) < MaxInst
    /\ LET self == Len(inst) + 1
           r == Connect(net, component, ins, outs, self)
       IN /\ inst' = Append(inst, Instance(component, chip, ins, outs, Allocated + 1))
          /\ instances' = Register(instances, chip, self)
          /\ net' = r.net
          /\ last' = Raised("_Instance", chip, r.exc)
          /\ built' = IF r.exc = NoExc THEN built \cup {self} ELSE built
    /\ calls' = [c \in chips |-> 0]
    /\ UNCHANGED <<chips, wires, inputs, outputs, files, heapBase, components, quota>>

\* the lists of nets a caller can pass for ports: every length up to the
\* largest number of ports any descriptor declares
Lists(ports) ==
    LET most == CHOOSE m \in ports : \A p \in ports : Len(p) <= Len(m)
    IN UNION { [1..n -> 1..Len(net)] : n \in 0..Len(most) }

InputLists == Lists({ d.inputs : d \in components })

OutputLists == Lists({ d.outputs : d \in components })

------------------------------------------------------------------------------
(* Chip.generate_verilog: the checks of lines 32-44 *)

\* CheckWires without the test of i.sink
RECURSIVE CheckWires_SourceOnly(_, _)
CheckWires_SourceOnly(ws, k) ==
    IF k > Len(ws) THEN NoExc
    ELSE IF net[ws[k]].source = None
    THEN C2CHIPError("wire %s has no source", net[ws[k]].name, k)
    ELSE CheckWires_SourceOnly(ws, k + 1)

\* for i in self.wires: source is tested before sink, the first failure raises
RECURSIVE CheckWires(_, _)
CheckWires(ws, k) ==
    IF k > Len(ws) THEN NoExc
    ELSE IF net[ws[k]].source = None
    THEN C2CHIPError("wire %s has no source", net[ws[k]].name, k)
    ELSE IF net[ws[k]].sink = None
    THEN C2CHIPError("wire %s has no sink", net[ws[k]].name, k)
    ELSE CheckWires(ws, k + 1)

\* for i in self.inputs
RECURSIVE CheckInputs(_, _)
CheckInputs(is, k) ==
    IF k > Len(is) THEN NoExc
    ELSE IF net[is[k]].sink = None
    THEN C2CHIPError("input %s has no sink", net[is[k]].name, k)
    ELSE CheckInputs(is, k + 1)

\* for i in self.outputs
RECURSIVE CheckOutputs(_, _)
CheckOutputs(os, k) ==
    IF k > Len(os) THEN NoExc
    ELSE IF net[os[k]].source = None
    THEN C2CHIPError("output %s has no source", net[os[k]].name, k)
    ELSE CheckOutputs(os, k + 1)

\* the loops in another order: inputs, wires, outputs
Validate_InputsFirst(chip) ==
    LET i == CheckInputs(inputs[chip], 1) IN
    IF i # NoExc THEN i
    ELSE LET w == CheckWires(wires[chip], 1) IN
         IF w # NoExc THEN w
         ELSE CheckOutputs(outputs[chip], 1)

\* the three loops in their order: wires, inputs, outputs
Validate(chip) ==
    LET w == CheckWires(wires[chip], 1) IN
    IF w # NoExc THEN w
    ELSE LET i == CheckInputs(inputs[chip], 1) IN
         IF i # NoExc THEN i
         ELSE CheckOutputs(outputs[chip], 1)

------------------------------------------------------------------------------
(* Chip.generate_verilog: the emission of lines 46-75.  A file is the      *)
(* sequence of write() calls made on it, each the format string of the     *)
(* call and the values formatted into it.                                  *)

NoFile == [exists |-> FALSE, open |-> FALSE, data |-> <<>>]

\* open(path, "a"): creates or appends
Open_Append(f) == [exists |-> TRUE, open |-> TRUE, data |-> f.data]

\* open(path, "w"): creates or truncates
Open(f) == [exists |-> TRUE, open |-> TRUE, data |-> <<>>]

Write(fmt, args) == [fmt |-> fmt, args |-> args]

Close(f) == [f EXCEPT !.open = FALSE]

\* the three writes of one net of a declaration loop
Triple(kw, kwAck, name) ==
    << Write("  " \o kw \o " [15:0] %s;\n", <<name>>),
       Write("  " \o kw \o " [15:0] %s_stb;\n", <<name>>),
       Write("  " \o kwAck \o " [15:0] %s_ack;\n", <<name>>) >>

RECURSIVE Declare(_, _, _, _, _)
Declare(kw, kwAck, ns, k, nm) ==
    IF k > Len(ns) THEN <<>>
    ELSE Triple(kw, kwAck, nm[ns[k]]) \o Declare(kw, kwAck, ns, k + 1, nm)

\* the ports list of one instance: three names per net
RECURSIVE Ports(_, _, _)
Ports(ns, k, nm) ==
    IF k > Len(ns) THEN <<>>
    ELSE << nm[ns[k]], nm[ns[k]] \o "_stb", nm[ns[k]] \o "_ack" >>
         \o Ports(ns, k + 1, nm)

\* Instantiate with the output nets listed before the input nets
Instantiate_OutputsFirst(i, ident, nm) ==
    << Write("  module %s_%s %s(\n    ",
             <<str(ident), inst[i].component.name, inst[i].component.name>>),
       Write(",\n    .join", Ports(inst[i].outputs, 1, nm) \o Ports(inst[i].inputs, 1, nm)),
       Write(");\n", <<>>) >>

\* the three writes of one instance; ident is id(instance)
Instantiate(i, ident, nm) ==
    << Write("  module %s_%s %s(\n    ",
             <<str(ident), inst[i].component.name, inst[i].component.name>>),
       Write(",\n    .join", Ports(inst[i].inputs, 1, nm) \o Ports(inst[i].outputs, 1, nm)),
       Write(");\n", <<>>) >>

RECURSIVE Instantiations(_, _, _, _)
Instantiations(is, k, nm, idOf) ==
    IF k > Len(is) THEN <<>>
    ELSE Instantiate(is[k], idOf[is[k]], nm) \o Instantiations(is, k + 1, nm, idOf)

\* Emit with the wires declared before the ports
Emit_WiresFirst(chip, nm, idOf) ==
    << Write("module %s;\n", <<chip>>) >>
    \o Declare("wire  ", "wire  ", wires[chip], 1, nm)
    \o Declare("input ", "output", inputs[chip], 1, nm)
    \o Declare("output", "input ", outputs[chip], 1, nm)
    \o Instantiations(instances[chip], 1, nm, idOf)
    \o << Write("endmodule\n", <<>>) >>

\* everything written between open and close, under the names nm of the nets
\* and the addresses idOf of the instances
Emit(chip, nm, idOf) ==
    << Write("module %s;\n", <<chip>>) >>
    \o Declare("input ", "output", inputs[chip], 1, nm)
    \o Declare("output", "input ", outputs[chip], 1, nm)
    \o Declare("wire  ", "wire  ", wires[chip], 1, nm)
    \o Instantiations(instances[chip], 1, nm, idOf)
    \o << Write("endmodule\n", <<>>) >>

\* i.name of every net, id(instance) of every instance, as the process has them
NetNames == [n \in 1..Len(net) |-> net[n].name]

\* id() of the class, one address for every instance
InstanceIds_OfClass == [i \in 1..Len(inst) |-> id(0)]

InstanceIds == [i \in 1..Len(inst) |-> id(inst[i].slot)]

Text(chip) == Emit(chip, NetNames, InstanceIds)

\* a device with room for every write
NoQuota == [limited |-> FALSE, writes |-> 0]

\* a device with room for n more write() calls
Quota(n) == [limited |-> TRUE, writes |-> n]

\* the exception the writes of lines 47-74 end with: write() raises on the
\* first call the device has no room for
WriteError(text) ==
    IF quota.limited /\ Len(text) > quota.writes THEN IOError(quota.writes + 1)
    ELSE NoExc

\* the write() calls that succeeded
Written(text) ==
    IF WriteError(text) = NoExc THEN text ELSE SubSeq(text, 1, quota.writes)

\* output_file = open(self.name + ".v", "w"); the writes; output_file.close().
\* Nothing catches an exception of a write: line 75 is then never reached.
WriteFile(f, text) ==
    LET g == [Open(f) EXCEPT !.data = @ \o Written(text)]
    IN IF WriteError(text) = NoExc THEN Close(g) ELSE g

\* the file opened before the checks run
Elaborate_OpenFirst(fs, chip, exc) ==
    IF exc # NoExc THEN [fs EXCEPT ![chip] = Open(@)]
    ELSE [fs EXCEPT ![chip] = WriteFile(@, Text(chip))]

\* the file system after the call that raised exc or returned
Elaborate(fs, chip, exc) ==
    IF exc # NoExc THEN fs
    ELSE [fs EXCEPT ![chip] = WriteFile(@, Text(chip))]

\* generate_verilog taking the instances off the chip's list as it emits them
generate_verilog_Draining(chip) ==
    /\ calls[chip] < MaxCalls
    /\ LET invalid == Validate(chip)
           exc == IF invalid # NoExc THEN invalid ELSE WriteError(Text(chip))
       IN
       /\ files' = Elaborate(files, chip, invalid)
       /\ last' = Raised("generate_verilog", chip, exc)
       /\ calls' = IF exc = NoExc THEN [calls EXCEPT ![chip] = @ + 1] ELSE calls
       /\ instances' = IF exc = NoExc THEN [instances EXCEPT ![chip] = <<>>]
                       ELSE instances
    /\ UNCHANGED <<chips, net, inst, wires, inputs, outputs, heapBase, built, components, quota>>

generate_verilog(chip) ==
    /\ calls[chip] < MaxCalls
    /\ LET invalid == Validate(chip)
           exc == IF invalid # NoExc THEN invalid ELSE WriteError(Text(chip))
       IN
       /\ files' = Elaborate(files, chip, invalid)
       /\ last' = Raised("generate_verilog", chip, exc)
       /\ calls' = IF exc = NoExc THEN [calls EXCEPT ![chip] = @ + 1] ELSE calls
    /\ UNCHANGED <<chips, net, inst, instances, wires, inputs, outputs, heapBase, built, components, quota>>

------------------------------------------------------------------------------

Init ==
    /\ chips = {"c1"}
    /\ net = <<>>
    /\ inst = <<>>
    /\ instances = [c \in chips |-> <<>>]
    /\ wires = [c \in chips |-> <<>>]
    /\ inputs = [c \in chips |-> <<>>]
    /\ outputs = [c \in chips |-> <<>>]
    /\ files = [c \in chips |-> NoFile]
    /\ heapBase \in HeapBases
    /\ last = Returned("Chip", "c1")
    /\ built = {}
    /\ calls = [c \in chips |-> 0]
    /\ components = Components
    /\ quota = NoQuota

\* the program run on a device that fills up
InitIO ==
    /\ chips = {"c1"}
    /\ net = <<>>
    /\ inst = <<>>
    /\ instances = [c \in chips |-> <<>>]
    /\ wires = [c \in chips |-> <<>>]
    /\ inputs = [c \in chips |-> <<>>]
    /\ outputs = [c \in chips |-> <<>>]
    /\ files = [c \in chips |-> NoFile]
    /\ heapBase \in HeapBases
    /\ last = Returned("Chip", "c1")
    /\ built = {}
    /\ calls = [c \in chips |-> 0]
    /\ components = Components
    /\ quota \in { Quota(n) : n \in Rooms }

\* a program that constructs two chips and one component
InitChips ==
    /\ chips = {"c1", "c2"}
    /\ net = <<>>
    /\ inst = <<>>
    /\ instances = [c \in chips |-> <<>>]
    /\ wires = [c \in chips |-> <<>>]
    /\ inputs = [c \in chips |-> <<>>]
    /\ outputs = [c \in chips |-> <<>>]
    /\ files = [c \in chips |-> NoFile]
    /\ heapBase \in { b \in HeapBases : \A o \in HeapBases : b <= o }
    /\ last = Returned("Chip", "c2")
    /\ built = {}
    /\ calls = [c \in chips |-> 0]
    /\ components = { d \in Components : d.name = "Buf" }
    /\ quota = NoQuota

Next ==
    \/ \E c \in chips : NewWire(c)
    \/ \E c \in chips, n \in Names : NewInput(c, n)
    \/ \E c \in chips, n \in Names : NewOutput(c, n)
    \/ \E d \in components, c \in chips, i \in InputLists, o \in OutputLists :
           NewInstance(d, c, i, o)
    \/ \E c \in chips : generate_verilog(c)

Spec == Init /\ [][Next]_vars

SpecIO == InitIO /\ [][Next]_vars

SpecChips == InitChips /\ [][Next]_vars

------------------------------------------------------------------------------
(* The error kinds of the specification, as the exceptions of the code *)

IncompleteNetGraph(exc) ==
    /\ exc.type = "C2CHIPError"
    /\ exc.fmt \in { "wire %s has no source", "wire %s has no sink",
                     "input %s has no sink", "output %s has no source" }

AlreadyBound(exc) ==
    /\ exc.type = "C2CHIPError"
    /\ exc.fmt \in { "%s allready has a sink", "%s has allready has a source" }

ArityMismatch(exc) ==
    /\ exc.type = "C2CHIPError"
    /\ exc.fmt \in { "Instance %s does not have the right number or inputs",
                     "Instance %s does not have the right number or outputs" }

(* I2, net by net: the slots a net of its class has are bound *)

MissingDriver(n) == net[n].cls \in {"Wire", "Output"} /\ net[n].source = None

MissingLoad(n) == net[n].cls \in {"Wire", "Input"} /\ net[n].sink = None

Incomplete(chip) ==
    { n \in 1..Len(net) : net[n].chip = chip /\ (MissingDriver(n) \/ MissingLoad(n)) }

(* A step that runs _Instance.__init__, and the instance it built *)

Constructs == Len(inst') = Len(inst) + 1

New == inst'[Len(inst')]

ArityOk(i) ==
    /\ Len(i.component.inputs) = Len(i.inputs)
    /\ Len(i.component.outputs) = Len(i.outputs)

Elaborated == last.op = "generate_verilog"

------------------------------------------------------------------------------
\* C1: generate_verilog raises the incomplete-graph C2CHIPError exactly when
\* some net of the chip has an unbound slot of its class, and returns
\* normally otherwise, whatever constructions (failed or not) came before.
C1_FailsIffIncomplete ==
    Elaborated =>
        /\ IncompleteNetGraph(last.exc) <=> Incomplete(last.chip) # {}
        /\ Incomplete(last.chip) = {} => last.exc = NoExc

\* a failed elaboration of a chip that holds a complete and an incomplete net,
\* after a construction that failed
C1_Witness ==
    /\ Elaborated
    /\ IncompleteNetGraph(last.exc)
    /\ \E n \in 1..Len(net) : n \notin Incomplete(last.chip)
    /\ \E i \in 1..Len(inst) : i \notin built

\* C2: a construction whose list lengths differ from the descriptor's fails
\* with ArityMismatch and leaves the chip's instance list as it was.
C2_ArityMismatchUnregistered ==
    [][Constructs /\ ~ArityOk(New) =>
          /\ ArityMismatch(last'.exc)
          /\ instances' = instances]_vars

\* C3: single assignment.  A bound slot keeps its value in every step, and a
\* bind attempted on a slot that is already bound (by an earlier instance or
\* by an earlier position of the same list) raises AlreadyBound at that
\* position, the slot still referring to its first binder.
C3_SingleAssignment ==
    [][/\ \A n \in 1..Len(net) :
            /\ net[n].sink > 0 => net'[n].sink = net[n].sink
            /\ net[n].source > 0 => net'[n].source = net[n].source
       /\ Constructs /\ ArityOk(New) =>
            LET self == Len(inst')
                ins == New.inputs
                outs == New.outputs
                SinkFree(k) == /\ net[ins[k]].sink = None
                               /\ \A j \in 1..(k - 1) : ins[j] # ins[k]
                SinkTaken(k) == \/ net[ins[k]].sink > 0
                                \/ \E j \in 1..(k - 1) : ins[j] = ins[k]
                SourceFree(k) == /\ net[outs[k]].source = None
                                 /\ \A j \in 1..(k - 1) : outs[j] # outs[k]
                SourceTaken(k) == \/ net[outs[k]].source > 0
                                  \/ \E j \in 1..(k - 1) : outs[j] = outs[k]
            IN /\ \A k \in 1..Len(ins) :
                    (\A j \in 1..(k - 1) : SinkFree(j)) /\ SinkTaken(k) =>
                        /\ last'.exc = C2CHIPError("%s allready has a sink",
                                                   net[ins[k]].name, k)
                        /\ net'[ins[k]].sink =
                              IF net[ins[k]].sink > 0 THEN net[ins[k]].sink ELSE self
               /\ \A k \in 1..Len(outs) :
                    /\ \A j \in 1..Len(ins) : SinkFree(j)
                    /\ \A j \in 1..(k - 1) : SourceFree(j)
                    /\ SourceTaken(k)
                    => /\ last'.exc = C2CHIPError("%s has allready has a source",
                                                  net[outs[k]].name, k)
                       /\ net'[outs[k]].source =
                              IF net[outs[k]].source > 0 THEN net[outs[k]].source ELSE self
      ]_vars

\* the second construction failed on a net listed twice in its input list,
\* whose load is the instance itself, while another net is bound to the
\* first instance
C3_Witness ==
    /\ last.op = "_Instance"
    /\ AlreadyBound(last.exc)
    /\ Len(inst) = 2
    /\ LET i == inst[2] IN
         /\ Len(i.inputs) = 2
         /\ i.inputs[1] = i.inputs[2]
         /\ last.exc.k = 2
         /\ net[i.inputs[1]].sink = 2
    /\ \E n \in 1..Len(net) : net[n].sink = 1

\* C4: a construction that fails with AlreadyBound leaves the chip's
\* instance list as it was.
C4_AlreadyBoundUnregistered ==
    [][Constructs /\ AlreadyBound(last'.exc) => instances' = instances]_vars

\* C5: a construction that fails with AlreadyBound leaves every driver and
\* load slot of every net as it was.
C5_AlreadyBoundRollsBack ==
    [][Constructs /\ AlreadyBound(last'.exc) => net' = net]_vars

------------------------------------------------------------------------------
\* C6: a generate_verilog call that raises leaves the file system as it was:
\* the file is neither created nor truncated nor written.
C6_FailureWritesNothing ==
    [][last'.op = "generate_verilog" /\ last'.exc # NoExc => files' = files]_vars

\* a failed elaboration of a chip whose file holds an earlier elaboration
C6_Witness ==
    /\ Elaborated
    /\ IncompleteNetGraph(last.exc)
    /\ files[last.chip].exists
    /\ Len(files[last.chip].data) > 2

(* The violations an exception of generate_verilog reports: the net's name, *)
(* the missing slot and the net's kind, read off the message.               *)

Reported(exc) ==
    [ name |-> exc.arg,
      slot |-> IF exc.fmt \in {"wire %s has no source", "output %s has no source"}
               THEN "driver" ELSE "load",
      kind |-> IF exc.fmt \in {"wire %s has no source", "wire %s has no sink"}
               THEN "internal"
               ELSE IF exc.fmt = "input %s has no sink" THEN "boundary-input"
               ELSE "boundary-output" ]

Violations(exc) == IF IncompleteNetGraph(exc) THEN << Reported(exc) >> ELSE <<>>

Kind(n) ==
    IF net[n].cls = "Wire" THEN "internal"
    ELSE IF net[n].cls = "Input" THEN "boundary-input" ELSE "boundary-output"

\* the violation of net n that a check reports first: its driver
ViolationOf(n) ==
    [ name |-> net[n].name,
      slot |-> IF MissingDriver(n) THEN "driver" ELSE "load",
      kind |-> Kind(n) ]

Rank(n) == IF net[n].cls = "Wire" THEN 1 ELSE IF net[n].cls = "Input" THEN 2 ELSE 3

\* the incomplete net the checks meet first: wires, then inputs, then
\* outputs, each in creation order
FirstIncomplete(chip) ==
    CHOOSE n \in Incomplete(chip) :
        \A m \in Incomplete(chip) :
            Rank(n) < Rank(m) \/ (Rank(n) = Rank(m) /\ n <= m)

C8_RepeatedElaborationSameText ==
    [][\A c \in chips :
          /\ last'.op = "generate_verilog" /\ last'.chip = c
          /\ calls[c] >= 1 /\ calls'[c] = calls[c] + 1
          => files'[c] = files[c]]_vars

\* a second elaboration of a valid chip with a wire and two instances
C8_Witness ==
    /\ Elaborated
    /\ last.exc = NoExc
    /\ calls[last.chip] = 2
    /\ wires[last.chip] # <<>>
    /\ Len(instances[last.chip]) = 2

(* The names and addresses another run of the same calls has, its heap      *)
(* starting at base.                                                        *)

NetNamesAt(base) ==
    [n \in 1..Len(net) |->
        IF net[n].cls = "Wire" THEN WireName(base, net[n].slot) ELSE net[n].name]

InstanceIdsAt(base) == [i \in 1..Len(inst) |-> IdAt(base, inst[i].slot)]

\* C9: the text a successful elaboration writes is the text every run of the
\* same calls writes, wherever its heap starts.
C9_SameTextInEveryRun ==
    Elaborated /\ last.exc = NoExc =>
        \A b \in HeapBases :
            files[last.chip].data = Emit(last.chip, NetNamesAt(b), InstanceIdsAt(b))

(* Counting in the emitted text *)

\* the positions where the three declarations of one net start
Triples(text, kw, kwAck) ==
    { p \in 1..(Len(text) - 2) :
        /\ Len(text[p].args) = 1
        /\ SubSeq(text, p, p + 2) = Triple(kw, kwAck, text[p].args[1]) }

PortTriples(text) ==
    Cardinality(Triples(text, "input ", "output"))
    + Cardinality(Triples(text, "output", "input "))

WireTriples(text) == Cardinality(Triples(text, "wire  ", "wire  "))

Statements(text) ==
    Cardinality({ p \in 1..Len(text) : text[p].fmt = "  module %s_%s %s(\n    " })

\* C10: the text of a valid chip holds one port triple per boundary net, one
\* wire triple per internal net and one instantiation statement per
\* instance whose construction succeeded.
C10_CountLaw ==
    Elaborated /\ last.exc = NoExc =>
        LET c == last.chip
            text == files[c].data
        IN /\ PortTriples(text) = Len(inputs[c]) + Len(outputs[c])
           /\ WireTriples(text) = Len(wires[c])
           /\ Statements(text) = Cardinality({ i \in built : inst[i].chip = c })

------------------------------------------------------------------------------
(* Reading the emitted text *)

IsJoin(w) == w.fmt = ",\n    .join"

IsStatement(w) == w.fmt = "  module %s_%s %s(\n    "

\* the connection lists of the instantiation statements, in text order
ConnectionLists(text) == SelectSeq(text, IsJoin)

\* the opening writes of the instantiation statements, in text order
StatementHeads(text) == SelectSeq(text, IsStatement)

Valid == Elaborated /\ last.exc = NoExc

\* C11: the connection list of every instance's statement is, for each of
\* its input nets in positional order and then each of its output nets in
\* positional order, the three names name, name_stb, name_ack.
C11_ConnectionList ==
    Valid =>
        LET c == last.chip
            lists == ConnectionLists(files[c].data)
        IN /\ Len(lists) = Len(instances[c])
           /\ \A k \in 1..Len(lists) :
                LET i == inst[instances[c][k]]
                    conn == lists[k].args
                    m == Len(i.inputs)
                IN /\ Len(conn) = 3 * (m + Len(i.outputs))
                   /\ \A j \in 1..m :
                        /\ conn[3 * j - 2] = net[i.inputs[j]].name
                        /\ conn[3 * j - 1] = net[i.inputs[j]].name \o "_stb"
                        /\ conn[3 * j] = net[i.inputs[j]].name \o "_ack"
                   /\ \A j \in 1..Len(i.outputs) :
                        /\ conn[3 * (m + j) - 2] = net[i.outputs[j]].name
                        /\ conn[3 * (m + j) - 1] = net[i.outputs[j]].name \o "_stb"
                        /\ conn[3 * (m + j)] = net[i.outputs[j]].name \o "_ack"

\* a valid chip elaborated, holding an Adder bound to a boundary input and a
\* wire, the wire being its output too
C11_Witness ==
    /\ Valid
    /\ \E i \in built :
         /\ inst[i].component.name = "Adder"
         /\ net[inst[i].inputs[1]].cls = "Input"
         /\ net[inst[i].inputs[2]].cls = "Wire"
         /\ Len(ConnectionLists(files[last.chip].data)[1].args) = 9

\* the section of the module a write belongs to: header, boundary-input
\* triples, boundary-output triples, internal triples, statements, closing
Section(w) ==
    IF w.fmt = "module %s;\n" THEN 0
    ELSE IF w.fmt \in { "  input  [15:0] %s;\n", "  input  [15:0] %s_stb;\n",
                        "  output [15:0] %s_ack;\n" } THEN 1
    ELSE IF w.fmt \in { "  output [15:0] %s;\n", "  output [15:0] %s_stb;\n",
                        "  input  [15:0] %s_ack;\n" } THEN 2
    ELSE IF w.fmt \in { "  wire   [15:0] %s;\n", "  wire   [15:0] %s_stb;\n",
                        "  wire   [15:0] %s_ack;\n" } THEN 3
    ELSE IF w.fmt = "endmodule\n" THEN 5
    ELSE 4

\* the names declared by the writes of format fmt, in text order
Declared(text, fmt) ==
    LET Is(w) == w.fmt = fmt
        found == SelectSeq(text, Is)
    IN [k \in 1..Len(found) |-> found[k].args[1]]

\* a finite set of indices as the sequence of its elements, ascending
InOrder(S) ==
    CHOOSE q \in [1..Cardinality(S) -> S] :
        \A j, k \in 1..Cardinality(S) : j < k => q[j] < q[k]

\* the nets of a class created under a chip, in creation order
Created(chip, cls) ==
    InOrder({ n \in 1..Len(net) : net[n].chip = chip /\ net[n].cls = cls })

NamesOf(ns) == [k \in 1..Len(ns) |-> net[ns[k]].name]

\* C12: the text is the header named after the chip, the boundary-input
\* triples in creation order, the boundary-output triples in creation
\* order, the internal triples in creation order, one statement per
\* instance in registration order, and the closing marker; nothing of a
\* later section precedes anything of an earlier one.
C12_SectionOrder ==
    Valid =>
        LET c == last.chip
            text == files[c].data
            heads == StatementHeads(text)
            registered == InOrder({ i \in 1..Len(inst) : inst[i].chip = c })
        IN /\ text[1] = Write("module %s;\n", <<c>>)
           /\ text[Len(text)] = Write("endmodule\n", <<>>)
           /\ \A p, q \in 1..Len(text) :
                /\ p < q => Section(text[p]) <= Section(text[q])
                /\ Section(text[p]) = 0 => p = 1
                /\ Section(text[p]) = 5 => p = Len(text)
           /\ Declared(text, "  input  [15:0] %s;\n") = NamesOf(Created(c, "Input"))
           /\ Declared(text, "  output [15:0] %s;\n") = NamesOf(Created(c, "Output"))
           /\ Declared(text, "  wire   [15:0] %s;\n") = NamesOf(Created(c, "Wire"))
           /\ Len(heads) = Len(registered)
           /\ \A k \in 1..Len(heads) :
                heads[k].args = << str(id(inst[registered[k]].slot)),
                                   inst[registered[k]].component.name,
                                   inst[registered[k]].component.name >>

\* a valid chip elaborated whose boundary output was created before its
\* boundary input, with two instances registered
C12_Witness ==
    /\ Valid
    /\ Len(net) = 2
    /\ net[1].cls = "Output"
    /\ net[2].cls = "Input"
    /\ Len(instances[last.chip]) = 2

------------------------------------------------------------------------------
\* C13: a construction that lists a boundary input among its outputs, or a
\* boundary output among its inputs, fails with AlreadyBound.
C13_InapplicableSlotAlreadyBound ==
    [][/\ Constructs
       /\ ArityOk(New)
       /\ \/ \E k \in 1..Len(New.outputs) : net[New.outputs[k]].cls = "Input"
          \/ \E k \in 1..Len(New.inputs) : net[New.inputs[k]].cls = "Output"
       => AlreadyBound(last'.exc)]_vars

\* C15: a construction of matching arity whose input nets all have an unset
\* load, whose output nets all have an unset driver, no net repeated in a
\* role, returns normally; every input net's load and every output net's
\* driver is then the new instance, which is the last element of the chip's
\* instance list, the earlier instances being as they were.
C15_CleanConstructionSucceeds ==
    [][/\ Constructs
       /\ ArityOk(New)
       /\ \A k \in 1..Len(New.inputs) :
            /\ net[New.inputs[k]].sink = None
            /\ \A j \in 1..(k - 1) : New.inputs[j] # New.inputs[k]
       /\ \A k \in 1..Len(New.outputs) :
            /\ net[New.outputs[k]].source = None
            /\ \A j \in 1..(k - 1) : New.outputs[j] # New.outputs[k]
       => /\ last'.exc = NoExc
          /\ \A k \in 1..Len(New.inputs) : net'[New.inputs[k]].sink = Len(inst')
          /\ \A k \in 1..Len(New.outputs) : net'[New.outputs[k]].source = Len(inst')
          /\ instances'[New.chip] = Append(instances[New.chip], Len(inst'))
          /\ \A c \in chips \ {New.chip} : instances'[c] = instances[c]
          /\ SubSeq(inst', 1, Len(inst)) = inst]_vars

\* the second construction, an Adder on two nets, returned normally and is
\* registered after the first instance
C15_Witness ==
    /\ last.op = "_Instance"
    /\ last.exc = NoExc
    /\ Len(inst) = 2
    /\ inst[2].component.name = "Adder"
    /\ instances[last.chip] = <<1, 2>>
    /\ net[inst[2].inputs[1]].sink = 2
    /\ net[inst[2].outputs[1]].source = 2

\* the instance name of a statement: "%s_%s" of its first two values
InstanceName(head) == head.args[1] \o "_" \o head.args[2]

\* C16: the instance names of the statements of an emitted text are
\* pairwise distinct, also for instances of one descriptor.
C16_DistinctInstanceNames ==
    Valid =>
        LET heads == StatementHeads(files[last.chip].data) IN
        \A p, q \in 1..Len(heads) :
            p # q => InstanceName(heads[p]) # InstanceName(heads[q])

\* a valid chip elaborated with two instances of one descriptor
C16_Witness ==
    /\ Valid
    /\ built = {1, 2}
    /\ inst[1].component = inst[2].component
    /\ Len(StatementHeads(files[last.chip].data)) = 2

\* C17: a generate_verilog call, whether it returns or raises, leaves the
\* chip's lists, the nets and the instances as they were.
C17_ElaborationReadsOnly ==
    [][last'.op = "generate_verilog" =>
          UNCHANGED <<net, inst, instances, wires, inputs, outputs>>]_vars

\* an elaboration that returned, of a chip with nets and instances, after
\* which the same call is still possible
C17_Witness ==
    /\ Valid
    /\ calls[last.chip] = 1
    /\ Len(net) = 2
    /\ Len(instances[last.chip]) = 1

------------------------------------------------------------------------------
(* The connections of the k-th statement of a text, split by the port      *)
(* counts of the descriptor the statement names.                           *)

Descriptor(head) == CHOOSE d \in Components : d.name = head.args[2]

\* the net names at the data positions lo..hi of a connection list
DataNames(conn, lo, hi) ==
    { conn[p] : p \in { q \in lo..hi : q <= Len(conn) /\ q % 3 = 1 } }

InputConnections(text, k) ==
    DataNames(ConnectionLists(text)[k].args, 1,
              3 * Len(Descriptor(StatementHeads(text)[k]).inputs))

OutputConnections(text, k) ==
    LET conn == ConnectionLists(text)[k].args
    IN DataNames(conn, 3 * Len(Descriptor(StatementHeads(text)[k]).inputs) + 1,
                 Len(conn))

\* C18: in the text of a successful elaboration every net of the chip that
\* has a load slot is an input connection of exactly one statement, every
\* net that has a driver slot is an output connection of exactly one
\* statement, and every statement has three connections per declared port.
C18_PointToPointInText ==
    Valid =>
        LET c == last.chip
            text == files[c].data
            stmts == 1..Len(StatementHeads(text))
        IN /\ \A n \in 1..Len(net) :
                net[n].chip = c =>
                  /\ net[n].sink # NoAttr =>
                       Cardinality({ k \in stmts :
                           net[n].name \in InputConnections(text, k) }) = 1
                  /\ net[n].source # NoAttr =>
                       Cardinality({ k \in stmts :
                           net[n].name \in OutputConnections(text, k) }) = 1
           /\ \A k \in stmts :
                LET d == Descriptor(StatementHeads(text)[k])
                IN Len(ConnectionLists(text)[k].args)
                     = 3 * (Len(d.inputs) + Len(d.outputs))

\* C19: in every state, a net whose load is instance X is in X's input list
\* and a net whose driver is instance X is in X's output list.
C19_BackReferences ==
    \A n \in 1..Len(net) :
        /\ net[n].sink > 0 =>
             \E k \in 1..Len(inst[net[n].sink].inputs) :
                 inst[net[n].sink].inputs[k] = n
        /\ net[n].source > 0 =>
             \E k \in 1..Len(inst[net[n].source].outputs) :
                 inst[net[n].source].outputs[k] = n

\* a construction failed with AlreadyBound at its output after binding its
\* input, whose load still refers to the failed instance
C19_Witness ==
    /\ last.op = "_Instance"
    /\ AlreadyBound(last.exc)
    /\ last.exc.fmt = "%s has allready has a source"
    /\ Len(inst) \notin built
    /\ \E n \in 1..Len(net) : net[n].sink = Len(inst)

------------------------------------------------------------------------------
(* The output file between calls *)

\* C14: when generate_verilog has returned or raised, the file it opened is
\* closed, also when a write failed after some text was written.
C14_SinkClosedOnEveryExit ==
    Elaborated => ~files[last.chip].open

------------------------------------------------------------------------------
(* Nets and chips *)

\* the names the declarations of a text declare
DeclaredNames(text) ==
    { text[p].args[1] :
        p \in Triples(text, "input ", "output")
               \cup Triples(text, "output", "input ")
               \cup Triples(text, "wire  ", "wire  ") }

\* the nets bound to the instances registered in a chip
BoundIn(chip) ==
    UNION { { inst[instances[chip][k]].inputs[j] :
                j \in 1..Len(inst[instances[chip][k]].inputs) }
            \cup { inst[instances[chip][k]].outputs[j] :
                j \in 1..Len(inst[instances[chip][k]].outputs) } :
            k \in 1..Len(instances[chip]) }

\* C20: every net named in a connection list of the text emitted for a chip
\* is declared in that text, and every net bound to an instance registered
\* in a chip is owned by that chip.
C20_NetlistClosedOverChip ==
    Valid =>
        LET c == last.chip
            text == files[c].data
            lists == ConnectionLists(text)
        IN /\ \A k \in 1..Len(lists) :
                DataNames(lists[k].args, 1, Len(lists[k].args)) \subseteq DeclaredNames(text)
           /\ \A n \in BoundIn(c) : net[n].chip = c

====
